---------------------------- MODULE Spec2Model ----------------------------
(***************************************************************************)
(* A model of pylisp's parser.py: the lexer (tokenize), the recursive      *)
(* parser (parse), the expression model (Atom, List), the environment      *)
(* (Env), closures (Udf), the evaluator (Atom.eval, List.eval) and the     *)
(* Program session with its primitive library.                             *)
(*                                                                         *)
(* Representation.  A Python str is a tuple of one-character strings, so   *)
(* that tokenize, int() and str() are computed character by character.     *)
(* Every Python value is a record whose field t is its type:               *)
(*   [t |-> "int",  v |-> 3]            [t |-> "str", s |-> <<"x">>]      *)
(*   [t |-> "float", n |-> 4, d |-> 1]  (n/d in lowest terms, d > 0)       *)
(*   [t |-> "bool", b |-> TRUE]         [t |-> "none"]                     *)
(*   [t |-> "atom", x |-> int-or-str]   [t |-> "list", items |-> <<..>>]   *)
(*   [t |-> "prim", name |-> <<"+">>]   [t |-> "udf", id, arg_names, body, *)
(*                                        env]                              *)
(* An Env is an index into the heap (a sequence of frames); 0 is None.     *)
(* A raised exception is the name of its class in the field err.           *)
(* The module is parser.py under Python 3.6 to 3.9 (it imports             *)
(* collections.Callable, which later versions removed).                    *)
(***************************************************************************)
EXTENDS Integers, Sequences, FiniteSets, TLC

VARIABLES
    \* ---- the Program session (REPL mode) ----
    heap,       \* the Env objects alive: heap[1] is Program.env
    stdout,     \* Program.stdout, the print primitive's buffer
    nsexps,     \* len(Program.sexps)
    nudf,       \* number of Udf objects created so far (object identity)
    ret,        \* what the last add_and_run_statement returned or raised
    printed,    \* what the last add_and_run_statement wrote with print()
    deflog,     \* the define forms evaluated by the last statement
    calllog,    \* the closure calls made by the last statement
    \* ---- Program(s) construction and re-display ----
    src,        \* the source text given to Program(s)
    prog,       \* the constructed Program: its sexps, or the error raised
    redisplay,  \* each sexp rendered by str() and tokenized and parsed again
    \* ---- Env and Atom.eval on their own ----
    envs,       \* Env objects built by Env(arg_names, args, outer)
    lookup,     \* the last Atom.eval call on envs and what it returned
    \* ---- the arithmetic primitives on their own ----
    call        \* the last primitive call and what it returned

vars == <<heap, stdout, nsexps, nudf, ret, printed, deflog, calllog,
          src, prog, redisplay, envs, lookup, call>>

-----------------------------------------------------------------------------
(* Bounds of the model *)

MaxText == 5        \* longest source text given to Program(s)
MaxStmts == 2       \* statements given to one REPL session
MaxDepth == 3       \* Env objects built in the Env specification
MaxArgs == 3        \* arguments given to an arithmetic primitive

-----------------------------------------------------------------------------
(* Text *)

SEPARATOR == " "
LP == "("
RP == ")"
QUOTEMARK == "'"

KW_ATOM == <<"a", "t", "o", "m", "?">>
KW_QUOTE == <<"q", "u", "o", "t", "e">>
KW_DEFINE == <<"d", "e", "f", "i", "n", "e">>
KW_LAMBDA == <<"l", "a", "m", "b", "d", "a">>
KW_COND == <<"c", "o", "n", "d">>

Digits == {"0", "1", "2", "3", "4", "5", "6", "7", "8", "9"}

DigitVal(c) ==
    CASE c = "0" -> 0 [] c = "1" -> 1 [] c = "2" -> 2 [] c = "3" -> 3
      [] c = "4" -> 4 [] c = "5" -> 5 [] c = "6" -> 6 [] c = "7" -> 7
      [] c = "8" -> 8 [] c = "9" -> 9

DigitChar(n) ==
    CASE n = 0 -> "0" [] n = 1 -> "1" [] n = 2 -> "2" [] n = 3 -> "3"
      [] n = 4 -> "4" [] n = 5 -> "5" [] n = 6 -> "6" [] n = 7 -> "7"
      [] n = 8 -> "8" [] n = 9 -> "9"

\* s.replace("(", " ( ").replace(")", " ) ")
RECURSIVE PadParens(_)
PadParens(s) ==
    IF s = <<>> THEN <<>>
    ELSE IF Head(s) \in {LP, RP}
         THEN <<SEPARATOR, Head(s), SEPARATOR>> \o PadParens(Tail(s))
         ELSE <<Head(s)>> \o PadParens(Tail(s))

\* str.split(): the maximal runs of non-whitespace characters, in order.
\* cur is the run being read.
RECURSIVE Split(_, _)
Split(s, cur) ==
    IF s = <<>> THEN (IF cur = <<>> THEN <<>> ELSE <<cur>>)
    ELSE IF Head(s) = SEPARATOR
         THEN (IF cur = <<>> THEN <<>> ELSE <<cur>>) \o Split(Tail(s), <<>>)
         ELSE Split(Tail(s), Append(cur, Head(s)))

\* tokenize(s): the deque of tokens, each a str
tokenize(s) == Split(PadParens(s), <<>>)

-----------------------------------------------------------------------------
(* Values *)

None == [t |-> "none"]
IntV(n) == [t |-> "int", v |-> n]
StrV(s) == [t |-> "str", s |-> s]
BoolV(b) == [t |-> "bool", b |-> b]
ListOf(items) == [t |-> "list", items |-> items]
Prim(name) == [t |-> "prim", name |-> name]

\* int(token) succeeds: an optional sign and then decimal digits.  (The
\* texts of this model hold no "_", no "." and no exponent, and no token
\* spells inf or nan, so float(token) never succeeds where int(token)
\* failed.)
IsIntLiteral(token) ==
    LET body == IF token # <<>> /\ Head(token) \in {"+", "-"}
                THEN Tail(token) ELSE token
    IN  body # <<>> /\ \A i \in 1..Len(body) : body[i] \in Digits

RECURSIVE DigitsVal(_, _)
DigitsVal(s, acc) ==
    IF s = <<>> THEN acc ELSE DigitsVal(Tail(s), 10 * acc + DigitVal(Head(s)))

IntOf(token) ==
    IF Head(token) = "-" THEN 0 - DigitsVal(Tail(token), 0)
    ELSE IF Head(token) = "+" THEN DigitsVal(Tail(token), 0)
    ELSE DigitsVal(token, 0)

\* Atom.__init__(token): self.x is the int the token spells, else the token
Atom(token) ==
    [t |-> "atom",
     x |-> IF IsIntLiteral(token) THEN IntV(IntOf(token)) ELSE StrV(token)]

RECURSIVE NatStr(_)
NatStr(n) ==
    IF n < 10 THEN <<DigitChar(n)>>
    ELSE Append(NatStr(n \div 10), DigitChar(n % 10))

\* str(n) of an int
IntStr(n) == IF n < 0 THEN <<"-">> \o NatStr(0 - n) ELSE NatStr(n)

\* str(v): Atom.__str__, List.__str__ and the built-in types' str.  A
\* function object and a Udf render as object reprs that carry an address;
\* the model keeps the part before the address.  A float is rendered when
\* it is integral (4.0); no other float is rendered by this model.
RECURSIVE PyStr(_)
RECURSIVE JoinStr(_)
PyStr(v) ==
    CASE v.t = "int" -> IntStr(v.v)
      [] v.t = "str" -> v.s
      [] v.t = "none" -> <<"N", "o", "n", "e">>
      [] v.t = "bool" -> IF v.b THEN <<"T", "r", "u", "e">>
                         ELSE <<"F", "a", "l", "s", "e">>
      [] v.t = "float" -> IF v.d = 1 THEN IntStr(v.n) \o <<".", "0">>
                          ELSE <<"<", "f", "l", "o", "a", "t", ">">>
      [] v.t = "atom" -> PyStr(v.x)
      [] v.t = "list" -> <<QUOTEMARK, LP>> \o JoinStr(v.items) \o <<RP>>
      [] v.t = "prim" -> <<"<", "f", "u", "n", "c", "t", "i", "o", "n", ">">>
      [] v.t = "udf" -> <<"<", "U", "d", "f", ">">>

\* ''.join(map(str, items)): the items with no separator between them (a
\* mutation of JoinStr)
RECURSIVE JoinStrNoSep(_)
JoinStrNoSep(items) ==
    IF items = <<>> THEN <<>>
    ELSE PyStr(items[1]) \o JoinStrNoSep(Tail(items))

\* ' '.join(map(str, items))
JoinStr(items) ==
    IF items = <<>> THEN <<>>
    ELSE IF Len(items) = 1 THEN PyStr(items[1])
    ELSE PyStr(items[1]) \o <<SEPARATOR>> \o JoinStr(Tail(items))

-----------------------------------------------------------------------------
(* Parser *)

ParseOk(tree, rest) == [err |-> "", tree |-> tree, rest |-> rest]
ParseErr(e) == [err |-> e, tree |-> None, rest |-> <<>>]

SyntaxError == "SyntaxError"
IndexError == "IndexError"

\* parse(tokens): the tree of the first form and the tokens left in the
\* deque, or the exception raised.  ParseItems is the while loop of the
\* open-parenthesis branch, sexp being the List built so far.
RECURSIVE parse(_)
RECURSIVE ParseItems(_, _)
parse(tokens) ==
    IF tokens = <<>> THEN ParseErr(IndexError)       \* popleft of an empty deque
    ELSE LET token == Head(tokens)
             rest == Tail(tokens)
         IN  IF token = <<LP>> THEN ParseItems(<<>>, rest)
             ELSE IF token = <<RP>> THEN ParseErr(SyntaxError)
             ELSE ParseOk(Atom(token), rest)

ParseItems(sexp, tokens) ==
    IF tokens = <<>> THEN ParseErr(IndexError)       \* tokens[0] of an empty deque
    ELSE IF Head(tokens) = <<RP>> THEN ParseOk(ListOf(sexp), Tail(tokens))
    ELSE LET r == parse(tokens)
         IN  IF r.err # "" THEN r
             ELSE IF r.rest = <<>> THEN ParseErr(SyntaxError)
             ELSE ParseItems(Append(sexp, r.tree), r.rest)

\* The loop of Program.__init__: while tokens: self.sexps.append(parse(tokens))
RECURSIVE ParseAll(_, _)
ParseAll(sexps, tokens) ==
    IF tokens = <<>> THEN [err |-> "", sexps |-> sexps]
    ELSE LET r == parse(tokens)
         IN  IF r.err # "" THEN [err |-> r.err, sexps |-> <<>>]
             ELSE ParseAll(Append(sexps, r.tree), r.rest)

\* Program.__init__(s) with repl_mode False: the Program's sexps, or the
\* exception that leaves no Program
ProgramNew(s) ==
    IF s = <<>> THEN [err |-> SyntaxError, sexps |-> <<>>]
    ELSE ParseAll(<<>>, tokenize(s))

-----------------------------------------------------------------------------
(* Env *)

Udf(id, arg_names, body, env) ==
    [t |-> "udf", id |-> id, arg_names |-> arg_names, body |-> body, env |-> env]

\* A float n/d, in lowest terms with d > 0
RECURSIVE Gcd(_, _)
Gcd(a, b) == IF b = 0 THEN a ELSE Gcd(b, a % b)

Abs(n) == IF n < 0 THEN 0 - n ELSE n

Float(n, d) ==
    LET g == Gcd(Abs(n), Abs(d))
        sign == IF d < 0 THEN 0 - 1 ELSE 1
    IN  [t |-> "float", n |-> sign * (n \div g), d |-> sign * (d \div g)]

\* Python's == and hash on dict keys: True, 1 and 1.0 are one key
KeyNorm(v) ==
    CASE v.t = "bool" -> IntV(IF v.b THEN 1 ELSE 0)
      [] v.t = "float" -> IF v.d = 1 THEN IntV(v.n) ELSE v
      [] OTHER -> v

\* A list is unhashable: it cannot be a dict key
Hashable(v) == v.t # "list"

\* key in env (dict.__contains__); env is a frame of the heap h
Has(h, e, key) ==
    \E i \in 1..Len(h[e].binds) : KeyNorm(h[e].binds[i].k) = KeyNorm(key)

\* env[key] (dict.__getitem__) for a key that is in env
Get(h, e, key) ==
    LET i == CHOOSE j \in 1..Len(h[e].binds) :
                 KeyNorm(h[e].binds[j].k) = KeyNorm(key)
    IN  h[e].binds[i].v

\* dict.__setitem__ on a frame's bindings: the value of an existing key is
\* replaced in place, a new key is added last
SetItem(binds, key, value) ==
    IF \E i \in 1..Len(binds) : KeyNorm(binds[i].k) = KeyNorm(key)
    THEN [i \in 1..Len(binds) |->
             IF KeyNorm(binds[i].k) = KeyNorm(key)
             THEN [k |-> binds[i].k, v |-> value] ELSE binds[i]]
    ELSE Append(binds, [k |-> key, v |-> value])

\* bool(env) of "if env" and "not self.outer": None is false, and so is an
\* Env that holds no binding (Env is a dict)
Truthy_env(h, e) == e # 0 /\ h[e].binds # <<>>

\* Env.find(arg_name): the frame the search stops at
RECURSIVE find(_, _, _)
find(h, e, arg_name) ==
    IF ~Truthy_env(h, h[e].outer) \/ Has(h, e, arg_name)
    THEN e
    ELSE find(h, h[e].outer, arg_name)

\* dict.update(zip(arg_names, args)) of Env.__init__, pair by pair
RECURSIVE ZipUpdate(_, _, _)
ZipUpdate(binds, arg_names, args) ==
    IF arg_names = <<>> \/ args = <<>> THEN binds
    ELSE ZipUpdate(SetItem(binds, Head(arg_names), Head(args)),
                   Tail(arg_names), Tail(args))

\* Env(arg_names, args, outer): the new frame
EnvNew(arg_names, args, outer) ==
    [binds |-> ZipUpdate(<<>>, arg_names, args), outer |-> outer]

\* Atom.eval(env) with the lookup written as _env.get(self.x): an unbound
\* symbol gives None (a mutation of AtomEval)
AtomEvalGet(h, e, atom) ==
    IF Truthy_env(h, e) /\ atom.x.t = "str"
    THEN LET env_ == find(h, e, atom.x)
         IN  IF Has(h, env_, atom.x) THEN Get(h, env_, atom.x) ELSE None
    ELSE atom.x

\* Atom.eval(env)
AtomEval(h, e, atom) ==
    IF Truthy_env(h, e) /\ atom.x.t = "str"
    THEN LET env_ == find(h, e, atom.x)
         IN  IF Has(h, env_, atom.x) THEN Get(h, env_, atom.x) ELSE atom.x
    ELSE atom.x

-----------------------------------------------------------------------------
(* Primitive library *)

TypeError == "TypeError"
AssertionError == "AssertionError"
AttributeError == "AttributeError"
ZeroDivisionError == "ZeroDivisionError"
\* Raised by the model, never by the program: the call is one whose result
\* this model does not compute (float arithmetic, sequence repetition,
\* ordering of strings, identity of objects)
Unmodelled == "Unmodelled"

Val(v) == [err |-> "", v |-> v]
Exc(e) == [err |-> e, v |-> None]

IsNum(v) == v.t \in {"int", "bool"}
IsNumber(v) == v.t \in {"int", "bool", "float"}
NumOf(v) == IF v.t = "bool" THEN (IF v.b THEN 1 ELSE 0) ELSE v.v

RECURSIVE SumOf(_)
SumOf(args) == IF args = <<>> THEN 0 ELSE NumOf(Head(args)) + SumOf(Tail(args))

RECURSIVE ProductOf(_)
ProductOf(args) ==
    IF Len(args) = 1 THEN NumOf(Head(args))
    ELSE NumOf(Head(args)) * ProductOf(Tail(args))

\* sum(args)
PySum(args) ==
    IF \E i \in 1..Len(args) : ~IsNumber(args[i]) THEN Exc(TypeError)
    ELSE IF \E i \in 1..Len(args) : ~IsNum(args[i]) THEN Exc(Unmodelled)
    ELSE Val(IntV(SumOf(args)))

\* reduce(operator.mul, args): no initial value, so an empty sequence
\* raises and a single element is returned as it is
ReduceMul(args) ==
    IF args = <<>> THEN Exc(TypeError)
    ELSE IF Len(args) = 1 THEN Val(args[1])
    ELSE IF \A i \in 1..Len(args) : IsNum(args[i])
         THEN Val(IntV(ProductOf(args)))
    ELSE IF \E i \in 1..Len(args) : args[i].t \in {"float", "str", "list"}
         THEN Exc(Unmodelled)
    ELSE Exc(TypeError)

\* "+": lambda *args: sum(args)
PrimAdd(args) == PySum(args)

\* "-": lambda *args: args[0] - sum(args[1:])
PrimSub(args) ==
    IF args = <<>> THEN Exc(IndexError)
    ELSE LET rest == PySum(Tail(args))
         IN  IF rest.err # "" THEN rest
             ELSE IF ~IsNumber(args[1]) THEN Exc(TypeError)
             ELSE IF ~IsNum(args[1]) THEN Exc(Unmodelled)
             ELSE Val(IntV(NumOf(args[1]) - rest.v.v))

\* "*": lambda *args: reduce(operator.mul, args)
PrimMul(args) == ReduceMul(args)

\* "/": lambda *args: args[0] / reduce(operator.mul, args[1:])
\* (true division: the quotient of two ints is a float)
PrimDiv(args) ==
    IF args = <<>> THEN Exc(IndexError)
    ELSE LET rest == ReduceMul(Tail(args))
         IN  IF rest.err # "" THEN rest
             ELSE IF ~IsNumber(args[1]) \/ ~IsNumber(rest.v) THEN Exc(TypeError)
             ELSE IF ~IsNum(args[1]) \/ ~IsNum(rest.v) THEN Exc(Unmodelled)
             ELSE IF NumOf(rest.v) = 0 THEN Exc(ZeroDivisionError)
             ELSE Val(Float(NumOf(args[1]), NumOf(rest.v)))

\* "<" and ">": operator.lt and operator.gt
PrimCompare(name, args) ==
    IF Len(args) # 2 THEN Exc(TypeError)
    ELSE IF IsNum(args[1]) /\ IsNum(args[2])
         THEN Val(BoolV(IF name = <<"<">>
                        THEN NumOf(args[1]) < NumOf(args[2])
                        ELSE NumOf(args[1]) > NumOf(args[2])))
    ELSE IF \/ IsNumber(args[1]) /\ IsNumber(args[2])
            \/ args[1].t = args[2].t /\ args[1].t \in {"str", "list"}
         THEN Exc(Unmodelled)
    ELSE Exc(TypeError)

\* "eq?": operator.eq
PrimEq(args) ==
    IF Len(args) # 2 THEN Exc(TypeError)
    ELSE IF \A i \in 1..2 : args[i].t \in {"int", "bool", "str", "none"}
         THEN Val(BoolV(KeyNorm(args[1]) = KeyNorm(args[2])))
    ELSE Exc(Unmodelled)

\* "car": lambda x: x[0]
PrimCar(args) ==
    IF Len(args) # 1 THEN Exc(TypeError)
    ELSE LET x == args[1]
         IN  CASE x.t = "list" -> IF x.items = <<>> THEN Exc(IndexError)
                                  ELSE Val(x.items[1])
               [] x.t = "str" -> IF x.s = <<>> THEN Exc(IndexError)
                                 ELSE Val(StrV(<<x.s[1]>>))
               [] OTHER -> Exc(TypeError)

\* "cdr": lambda x: List(x[1:])
PrimCdr(args) ==
    IF Len(args) # 1 THEN Exc(TypeError)
    ELSE LET x == args[1]
         IN  CASE x.t = "list" ->
                     Val(ListOf(SubSeq(x.items, 2, Len(x.items))))
               [] x.t = "str" ->
                     Val(ListOf([i \in 1..(IF x.s = <<>> THEN 0 ELSE Len(x.s) - 1)
                                    |-> StrV(<<x.s[i + 1]>>)]))
               [] OTHER -> Exc(TypeError)

\* "cons": lambda x, y: List([x] + y) if isinstance(y, List)
\*                      else List([x] + [y])
PrimCons(args) ==
    IF Len(args) # 2 THEN Exc(TypeError)
    ELSE IF args[2].t = "list" THEN Val(ListOf(<<args[1]>> \o args[2].items))
    ELSE Val(ListOf(<<args[1], args[2]>>))

PrimNames ==
    << <<"+">>, <<"-">>, <<"*">>, <<"/">>, <<"<">>, <<">">>,
       <<"e", "q", "?">>, <<"c", "a", "r">>, <<"c", "d", "r">>,
       <<"c", "o", "n", "s">>, <<"p", "r", "i", "n", "t">> >>

\* The call of a primitive other than print (which writes to the session)
PrimCall(name, args) ==
    CASE name = <<"+">> -> PrimAdd(args)
      [] name = <<"-">> -> PrimSub(args)
      [] name = <<"*">> -> PrimMul(args)
      [] name = <<"/">> -> PrimDiv(args)
      [] name \in {<<"<">>, <<">">>} -> PrimCompare(name, args)
      [] name = <<"e", "q", "?">> -> PrimEq(args)
      [] name = <<"c", "a", "r">> -> PrimCar(args)
      [] name = <<"c", "d", "r">> -> PrimCdr(args)
      [] name = <<"c", "o", "n", "s">> -> PrimCons(args)

\* Program.env after Program.__init__: Env() updated with the primitives
RootEnv ==
    [binds |-> [i \in 1..Len(PrimNames) |->
                   [k |-> StrV(PrimNames[i]), v |-> Prim(PrimNames[i])]],
     outer |-> 0]

-----------------------------------------------------------------------------
(* Evaluator *)

\* The session state an evaluation reads and writes: st.heap, st.stdout,
\* st.nudf, and the two logs of what the evaluation did
Ok(v, st) == [err |-> "", v |-> v, st |-> st]
Raise(e, st) == [err |-> e, v |-> None, st |-> st]

\* bool(v) of "if test_expression[0].eval(env)"
Truthy(v) ==
    CASE v.t = "none" -> FALSE
      [] v.t = "bool" -> v.b
      [] v.t = "int" -> v.v # 0
      [] v.t = "float" -> v.n # 0
      [] v.t = "str" -> v.s # <<>>
      [] v.t = "list" -> v.items # <<>>
      [] OTHER -> TRUE

\* isinstance(op, Callable)
IsCallable(v) == v.t \in {"prim", "udf"}

\* The operator taken from the first position (a mutation of OperatorOf)
OperatorFirst(items) == items[1]

\* self[-1] of a non-empty List
OperatorOf(items) == items[Len(items)]

\* self[:-1]
OperandsOf(items) == SubSeq(items, 1, Len(items) - 1)

\* env[key] = value written into Program.env whatever env is (a mutation
\* of EnvSetItem)
EnvSetItemGlobal(h, e, key, value) ==
    [h EXCEPT ![1].binds = SetItem(@, key, value)]

\* env[key] = value
EnvSetItem(h, e, key, value) ==
    [h EXCEPT ![e].binds = SetItem(@, key, value)]

RECURSIVE Eval(_, _, _)
RECURSIVE EvalEach(_, _, _, _)
RECURSIVE ListEval(_, _, _)
RECURSIVE CondEval(_, _, _)
RECURSIVE UdfCall(_, _, _)

\* expression.eval(env): Atom.eval or List.eval; any other value has no eval
Eval(node, e, st) ==
    IF node.t = "atom" THEN Ok(AtomEval(st.heap, e, node), st)
    ELSE IF node.t = "list" THEN ListEval(node.items, e, st)
    ELSE Raise(AttributeError, st)

\* [item.eval(env) for item in items], left to right; values holds the
\* results so far
EvalEach(items, e, st, values) ==
    IF items = <<>> THEN Ok(values, st)
    ELSE LET r == Eval(Head(items), e, st)
         IN  IF r.err # "" THEN r
             ELSE EvalEach(Tail(items), e, r.st, Append(values, r.v))

\* The atom? branch of List.eval
EvalAtomTest(args, e, st) ==
    IF Len(args) # 1 THEN Raise(AssertionError, st)
    ELSE IF args[1].t = "atom" THEN Ok(BoolV(TRUE), st)
    ELSE LET r == Eval(args[1], e, st)
         IN  IF r.err # "" THEN r ELSE Ok(BoolV(r.v.t # "list"), r.st)

\* The define branch of List.eval: the right-hand side is evaluated first,
\* then the key.  begin is the heap when the evaluation of the form began;
\* the log entry says which of the frames that existed then differ after.
EvalDefine(args, e, st, begin) ==
    IF Len(args) # 2 THEN Raise(AssertionError, st)
    ELSE LET rv == Eval(args[2], e, st)
         IN  IF rv.err # "" THEN rv
             ELSE LET rk == Eval(args[1], e, rv.st)
                  IN  IF rk.err # "" THEN rk
                      ELSE IF ~Hashable(rk.v) THEN Raise(TypeError, rk.st)
                      ELSE LET h == EnvSetItem(rk.st.heap, e, rk.v, rv.v)
                               entry == [env |-> e, name |-> args[1],
                                         key |-> rk.v, value |-> rv.v,
                                         changed |-> {i \in 1..Len(begin) :
                                                         h[i] # begin[i]}]
                           IN  Ok(None, [rk.st EXCEPT
                                           !.heap = h,
                                           !.deflog = Append(@, entry)])

\* The lambda branch of List.eval
EvalLambda(args, e, st) ==
    IF Len(args) # 2 THEN Raise(AssertionError, st)
    ELSE Ok(Udf(st.nudf + 1, args[1], args[2], e),
            [st EXCEPT !.nudf = @ + 1])

\* The cond branch of List.eval: the for loop over the pairs left to test
CondEval(args, e, st) ==
    IF args = <<>> THEN Ok(None, st)
    ELSE LET test_expression == Head(args)
         IN  IF test_expression.t # "list" THEN Raise(TypeError, st)
             ELSE IF test_expression.items = <<>> THEN Raise(IndexError, st)
             ELSE LET r == Eval(test_expression.items[1], e, st)
                  IN  IF r.err # "" THEN r
                      ELSE IF Truthy(r.v)
                           THEN (IF Len(test_expression.items) < 2
                                 THEN Raise(IndexError, r.st)
                                 ELSE Eval(test_expression.items[2], e, r.st))
                      ELSE CondEval(Tail(args), e, r.st)

\* Udf.__call__(*args): the formal names are evaluated in the captured
\* environment, the new Env is built, and the body is evaluated in it.  The
\* log entry keeps the heap as it is when the body starts.
UdfCall(f, args, st) ==
    IF f.arg_names.t # "list" THEN Raise(TypeError, st)
    ELSE LET rn == EvalEach(f.arg_names.items, f.env, st, <<>>)
         IN  IF rn.err # "" THEN rn
             ELSE IF \E i \in 1..Len(rn.v) : i <= Len(args) /\ ~Hashable(rn.v[i])
                  THEN Raise(TypeError, rn.st)
             ELSE LET h == Append(rn.st.heap, EnvNew(rn.v, args, f.env))
                      entry == [udf |-> f, args |-> args, env |-> Len(h),
                                before |-> Len(rn.st.heap), heap |-> h]
                  IN  Eval(f.body, Len(h),
                           [rn.st EXCEPT !.heap = h,
                                         !.calllog = Append(@, entry)])

\* op(*values)
Apply(op, values, st) ==
    IF op.t = "udf" THEN UdfCall(op, values, st)
    ELSE IF op.name = <<"p", "r", "i", "n", "t">>
         \* lambda x: self.stdout.append(str(x))
         THEN (IF Len(values) # 1 THEN Raise(TypeError, st)
               ELSE Ok(None, [st EXCEPT !.stdout = Append(@, PyStr(values[1]))]))
    ELSE LET r == PrimCall(op.name, values)
         IN  [err |-> r.err, v |-> r.v, st |-> st]

\* List.eval(env)
ListEval(items, e, st) ==
    IF items = <<>> THEN Raise(IndexError, st)               \* self[-1]
    ELSE LET args == OperandsOf(items)
             r == Eval(OperatorOf(items), e, st)
         IN  IF r.err # "" THEN r
             ELSE LET op == r.v
                  IN  IF op = StrV(KW_QUOTE)
                      THEN (IF Len(args) # 1 THEN Raise(AssertionError, r.st)
                            ELSE Ok(args[1], r.st))
                      ELSE IF op = StrV(KW_ATOM) THEN EvalAtomTest(args, e, r.st)
                      ELSE IF op = StrV(KW_DEFINE)
                           THEN EvalDefine(args, e, r.st, st.heap)
                      ELSE IF op = StrV(KW_LAMBDA) THEN EvalLambda(args, e, r.st)
                      ELSE IF op = StrV(KW_COND) THEN CondEval(args, e, r.st)
                      ELSE LET rs == EvalEach(args, e, r.st, <<>>)
                           IN  IF rs.err # "" THEN rs
                               ELSE IF ~IsCallable(op)
                                    THEN Raise(AssertionError, rs.st)
                               ELSE Apply(op, rs.v, rs.st)

-----------------------------------------------------------------------------
(* Program session *)

\* The Env objects a value holds a reference to
RECURSIVE Refs(_)
Refs(v) ==
    CASE v.t = "udf" -> {v.env}
      [] v.t = "list" -> UNION {Refs(v.items[i]) : i \in 1..Len(v.items)}
      [] OTHER -> {}

FrameRefs(frame) ==
    (IF frame.outer = 0 THEN {} ELSE {frame.outer})
    \cup UNION {Refs(frame.binds[i].k) \cup Refs(frame.binds[i].v) :
                   i \in 1..Len(frame.binds)}

RECURSIVE Reachable(_, _)
Reachable(h, from) ==
    LET more == from \cup UNION {FrameRefs(h[i]) : i \in from}
    IN  IF more = from THEN from ELSE Reachable(h, more)

\* The Env objects left when a statement has returned: an Env made for a
\* call is freed with the call unless a closure that is still referenced
\* captured it.  Only the frames after the last referenced one are dropped,
\* so no reference is renumbered.
Collect(h, value) ==
    LET live == Reachable(h, {1} \cup Refs(value))
        last == CHOOSE i \in live : \A j \in live : j <= i
    IN  SubSeq(h, 1, last)

\* "\n".join(lines)
RECURSIVE JoinLines(_)
JoinLines(lines) ==
    IF lines = <<>> THEN <<>>
    ELSE IF Len(lines) = 1 THEN lines[1]
    ELSE lines[1] \o <<"\n">> \o JoinLines(Tail(lines))

\* (3 4 +)
S_add ==
    <<"(", "3", " ", "4", " ", "+", ")">>

\* (10 2 3 -)
S_sub ==
    <<"(", "1", "0", " ", "2", " ", "3", " ", "-", ")">>

\* (2 3 4 *)
S_mul ==
    <<"(", "2", " ", "3", " ", "4", " ", "*", ")">>

\* (24 2 3 /)
S_div ==
    <<"(", "2", "4", " ", "2", " ", "3", " ", "/", ")">>

\* (x 5 define)
S_def5 ==
    <<"(", "x", " ", "5", " ", "d", "e", "f", "i", "n", "e", ")">>

\* (x 6 define)
S_def6 ==
    <<"(", "x", " ", "6", " ", "d", "e", "f", "i", "n", "e", ")">>

\* x
S_x ==
    <<"x">>

\* (f ((x) (x x +) lambda) define)
S_deff ==
    <<"(", "f", " ", "(", "(", "x", ")", " ", "(", "x", " ", "x", " ", "+",
      ")", " ", "l", "a", "m", "b", "d", "a", ")", " ", "d", "e", "f", "i",
      "n", "e", ")">>

\* (5 f)
S_callf ==
    <<"(", "5", " ", "f", ")">>

\* (5 (("x") ("x" "x" +) lambda))
S_lam ==
    <<"(", "5", " ", "(", "(", "\"", "x", "\"", ")", " ", "(", "\"", "x",
      "\"", " ", "\"", "x", "\"", " ", "+", ")", " ", "l", "a", "m", "b",
      "d", "a", ")", ")">>

\* ((false 1) (true 2) cond)
S_cond ==
    <<"(", "(", "f", "a", "l", "s", "e", " ", "1", ")", " ", "(", "t", "r",
      "u", "e", " ", "2", ")", " ", "c", "o", "n", "d", ")">>

\* ((0 1) (1 2) cond)
S_cond01 ==
    <<"(", "(", "0", " ", "1", ")", " ", "(", "1", " ", "2", ")", " ", "c",
      "o", "n", "d", ")">>

\* ((0 1) (0 2) cond)
S_condnone ==
    <<"(", "(", "0", " ", "1", ")", " ", "(", "0", " ", "2", ")", " ", "c",
      "o", "n", "d", ")">>

\* ((0 (1 print)) (1 2) ((2 print) 3) cond)
S_condskip ==
    <<"(", "(", "0", " ", "(", "1", " ", "p", "r", "i", "n", "t", ")", ")",
      " ", "(", "1", " ", "2", ")", " ", "(", "(", "2", " ", "p", "r", "i",
      "n", "t", ")", " ", "3", ")", " ", "c", "o", "n", "d", ")">>

\* (5 ((a) (x a define) lambda))
S_body ==
    <<"(", "5", " ", "(", "(", "a", ")", " ", "(", "x", " ", "a", " ", "d",
      "e", "f", "i", "n", "e", ")", " ", "l", "a", "m", "b", "d", "a", ")",
      ")">>

\* (5 ((a) (7 ((b) (x b define) lambda)) lambda))
S_nest ==
    <<"(", "5", " ", "(", "(", "a", ")", " ", "(", "7", " ", "(", "(", "b",
      ")", " ", "(", "x", " ", "b", " ", "d", "e", "f", "i", "n", "e", ")",
      " ", "l", "a", "m", "b", "d", "a", ")", ")", " ", "l", "a", "m", "b",
      "d", "a", ")", ")">>

\* ((x 1 define) x ((a b) b lambda))
S_order ==
    <<"(", "(", "x", " ", "1", " ", "d", "e", "f", "i", "n", "e", ")", " ",
      "x", " ", "(", "(", "a", " ", "b", ")", " ", "b", " ", "l", "a", "m",
      "b", "d", "a", ")", ")">>

\* ((1 print) (2 print) ((a b) 0 lambda))
S_prints ==
    <<"(", "(", "1", " ", "p", "r", "i", "n", "t", ")", " ", "(", "2", " ",
      "p", "r", "i", "n", "t", ")", " ", "(", "(", "a", " ", "b", ")", " ",
      "0", " ", "l", "a", "m", "b", "d", "a", ")", ")">>

\* (
S_open ==
    <<"(">>

\* ((1 2 3) quote)
S_quote ==
    <<"(", "(", "1", " ", "2", " ", "3", ")", " ", "q", "u", "o", "t", "e",
      ")">>


\* An empty List whose only element is the operator: the product of nothing
S_mul0 ==
    <<"(", "*", ")">>

\* (5 /)
S_div1 ==
    <<"(", "5", " ", "/", ")">>

\* (3 ((x) (x x +) lambda))
S_lam3 ==
    <<"(", "3", " ", "(", "(", "x", ")", " ", "(", "x", " ", "x", " ", "+",
      ")", " ", "l", "a", "m", "b", "d", "a", ")", ")">>

\* The lists of two or three numerals that end in +, - or *, as source text
ArithOps == {<<"+">>, <<"-">>, <<"*">>}
ArithOperands ==
    {<<a, b>> : a \in {2, 3}, b \in {2, 3}}
    \cup {<<10, b, c>> : b \in {2, 3}, c \in {2, 3}}

RECURSIVE Numerals(_)
Numerals(operands) ==
    IF operands = <<>> THEN <<>>
    ELSE IntStr(Head(operands)) \o <<SEPARATOR>> \o Numerals(Tail(operands))

ArithSource(operands, op) == <<LP>> \o Numerals(operands) \o op \o <<RP>>

ArithSources ==
    {ArithSource(operands, op) : operands \in ArithOperands, op \in ArithOps}

Sources ==
    {S_add, S_sub, S_mul, S_div, S_def5, S_def6, S_x, S_deff, S_callf, S_lam,
     S_cond, S_cond01, S_condnone, S_condskip, S_body, S_nest, S_order,
     S_prints, S_open, S_quote, S_mul0, S_div1, S_lam3}
    \cup ArithSources

Parsed == [s \in Sources |-> parse(tokenize(s))]

sessionVars == <<heap, stdout, nsexps, nudf, ret, printed, deflog, calllog>>
parseVars == <<src, prog, redisplay>>
envVars == <<envs, lookup>>
primVars == <<call>>

\* Program.add_and_run_statement(s) on the session state st: what it
\* returns or raises, what it prints, and the session state it leaves
RunStatement(s, st) ==
    LET p == Parsed[s]
    IN  IF p.err # ""
        THEN [state |-> "raised", src |-> s, err |-> p.err, value |-> None,
              text |-> <<>>, printed |-> <<>>, appended |-> 0, st |-> st]
        ELSE LET r == Eval(p.tree, 1, st)
             IN  IF r.err # ""
                 THEN [state |-> "raised", src |-> s, err |-> r.err,
                       value |-> None, text |-> <<>>, printed |-> <<>>,
                       appended |-> 1, st |-> r.st]
                 ELSE [state |-> "returned", src |-> s, err |-> "",
                       value |-> r.v, text |-> PyStr(r.v),
                       \* print(self.get_std_out())
                       printed |-> <<JoinLines(r.st.stdout)>>,
                       appended |-> 1,
                       st |-> [r.st EXCEPT !.stdout = <<>>]]

NoRet == [state |-> "none", src |-> <<>>, err |-> "", value |-> None, text |-> <<>>]
NoProgram == [state |-> "none", err |-> "", sexps |-> <<>>]
NoLookup == [state |-> "none", env |-> 0, atom |-> None, value |-> None]
NoCall == [state |-> "none", name |-> <<>>, args |-> <<>>, err |-> "", v |-> None]

SessionIdle ==
    /\ heap = <<>> /\ stdout = <<>> /\ nsexps = 0 /\ nudf = 0 /\ ret = NoRet
    /\ printed = <<>> /\ deflog = <<>> /\ calllog = <<>>
ParseIdle == src = <<>> /\ prog = NoProgram /\ redisplay = <<>>
EnvIdle == envs = <<>> /\ lookup = NoLookup
PrimIdle == call = NoCall

\* Program(repl_mode=True)
Init ==
    /\ heap = <<RootEnv>> /\ stdout = <<>> /\ nsexps = 0 /\ nudf = 0
    /\ ret = NoRet /\ printed = <<>> /\ deflog = <<>> /\ calllog = <<>>
    /\ ParseIdle /\ EnvIdle /\ PrimIdle

\* Program.add_and_run_statement(s)
add_and_run_statement(s) ==
    /\ nsexps < MaxStmts
    /\ LET r == RunStatement(s, [heap |-> heap, stdout |-> stdout, nudf |-> nudf,
                                 deflog |-> <<>>, calllog |-> <<>>])
       IN  /\ ret' = [state |-> r.state, src |-> r.src, err |-> r.err,
                      value |-> r.value, text |-> r.text]
           /\ printed' = r.printed
           /\ nsexps' = nsexps + r.appended
           /\ heap' = Collect(r.st.heap, r.value)
           /\ stdout' = r.st.stdout
           /\ nudf' = r.st.nudf
           /\ deflog' = r.st.deflog
           /\ calllog' = r.st.calllog
    /\ UNCHANGED <<parseVars, envVars, primVars>>

Next == \E s \in Sources : add_and_run_statement(s)

Spec == Init /\ [][Next]_vars

-----------------------------------------------------------------------------
(* Program(s): construction from a whole source text, and re-display *)

TextChars == {LP, RP, SEPARATOR, QUOTEMARK, "a", "1"}
Texts == UNION {[1..n -> TextChars] : n \in 0..MaxText}

InitParse ==
    /\ src \in Texts /\ prog = NoProgram /\ redisplay = <<>>
    /\ SessionIdle /\ EnvIdle /\ PrimIdle

\* Program(src)
Program_init ==
    /\ prog.state = "none"
    /\ LET p == ProgramNew(src)
       IN  prog' = [state |-> IF p.err = "" THEN "built" ELSE "raised",
                    err |-> p.err, sexps |-> p.sexps]
    /\ UNCHANGED <<src, redisplay, sessionVars, envVars, primVars>>

\* str(sexp) of every sexp of the Program (as Program.__str__ renders
\* them), and tokenize and parse applied to each text
Redisplay ==
    /\ prog.state = "built"
    /\ redisplay' = [i \in 1..Len(prog.sexps) |->
                        LET text == PyStr(prog.sexps[i])
                        IN  [text |-> text, tokens |-> tokenize(text),
                             again |-> parse(tokenize(text))]]
    /\ prog' = [prog EXCEPT !.state = "shown"]
    /\ UNCHANGED <<src, sessionVars, envVars, primVars>>

NextParse == Program_init \/ Redisplay

SpecParse == InitParse /\ [][NextParse]_vars

-----------------------------------------------------------------------------
(* Env and Atom.eval on their own *)

SymX == StrV(<<"x">>)
SymY == StrV(<<"y">>)
NameLists == {<<>>, <<SymX>>, <<SymY>>, <<SymX, SymY>>}
ArgLists == {<<>>, <<IntV(1)>>, <<IntV(2)>>, <<IntV(1), IntV(2)>>,
             <<IntV(2), IntV(1)>>}
ProbeAtoms == {Atom(<<"x">>), Atom(<<"y">>), Atom(<<"z">>), Atom(<<"7">>)}

InitEnv ==
    /\ envs = <<>> /\ lookup = NoLookup
    /\ SessionIdle /\ ParseIdle /\ PrimIdle

\* Env(arg_names, args, outer), outer being None or the Env made last
Env_init(arg_names, args, outer) ==
    /\ Len(envs) < MaxDepth
    /\ envs' = Append(envs, EnvNew(arg_names, args, outer))
    /\ UNCHANGED <<lookup, sessionVars, parseVars, primVars>>

\* atom.eval(env), env being None (0) or an Env
Atom_eval(atom, e) ==
    /\ lookup' = [state |-> "done", env |-> e, atom |-> atom,
                  value |-> AtomEval(envs, e, atom)]
    /\ UNCHANGED <<envs, sessionVars, parseVars, primVars>>

NextEnv ==
    \/ \E arg_names \in NameLists, args \in ArgLists, outer \in {0, Len(envs)} :
          Env_init(arg_names, args, outer)
    \/ \E atom \in ProbeAtoms, e \in 0..Len(envs) : Atom_eval(atom, e)

SpecEnv == InitEnv /\ [][NextEnv]_vars

-----------------------------------------------------------------------------
(* The arithmetic primitives on their own *)

ArithNames == {<<"+">>, <<"-">>, <<"*">>, <<"/">>}
IntArgs == {IntV(n) : n \in (0 - 1)..3}
ArgSeqs == UNION {[1..n -> IntArgs] : n \in 0..MaxArgs}

InitPrim ==
    /\ call = NoCall
    /\ SessionIdle /\ ParseIdle /\ EnvIdle

\* Program.env[name](*args)
Prim_call(name, args) ==
    /\ LET r == PrimCall(name, args)
       IN  call' = [state |-> "done", name |-> name, args |-> args,
                    err |-> r.err, v |-> r.v]
    /\ UNCHANGED <<sessionVars, parseVars, envVars>>

NextPrim == \E name \in ArithNames, args \in ArgSeqs : Prim_call(name, args)

SpecPrim == InitPrim /\ [][NextPrim]_vars

-----------------------------------------------------------------------------
(* Properties *)

RECURSIVE SumInts(_)
SumInts(ns) == IF ns = <<>> THEN 0 ELSE Head(ns) + SumInts(Tail(ns))

RECURSIVE ProductInts(_)
ProductInts(ns) == IF ns = <<>> THEN 1 ELSE Head(ns) * ProductInts(Tail(ns))

\* What (n1 ... nk op) means with the operator in the last position
ArithMeaning(operands, op) ==
    CASE op = <<"+">> -> SumInts(operands)
      [] op = <<"-">> -> Head(operands) - SumInts(Tail(operands))
      [] op = <<"*">> -> ProductInts(operands)

Returned(s) == ret.state # "none" /\ ret.src = s

\* C1: a List whose last element evaluates to a callable is an application
\* of that callable to the values of the preceding elements, evaluated left
\* to right in the current environment: every list of numerals that ends
\* in +, - or * returns the sum, the first minus the sum of the rest, or the
\* product of its numerals, whatever the session did before; (3 4 +) is 7,
\* (10 2 3 -) is 5 and (2 3 4 *) is 24; in a new session an operand that
\* defines x is evaluated before the operand after it reads x, and two
\* printing operands print in their order
C1_OperandLastApplication ==
    /\ \A operands \in ArithOperands, op \in ArithOps :
          Returned(ArithSource(operands, op)) =>
              /\ ret.state = "returned"
              /\ ret.value = IntV(ArithMeaning(operands, op))
    /\ Returned(S_add) => ret.state = "returned" /\ ret.value = IntV(7)
    /\ Returned(S_sub) => ret.state = "returned" /\ ret.value = IntV(5)
    /\ Returned(S_mul) => ret.state = "returned" /\ ret.value = IntV(24)
    /\ (Returned(S_order) /\ nsexps = 1) =>
          ret.state = "returned" /\ ret.value = IntV(1)
    /\ Returned(S_prints) =>
          ret.state = "returned" /\ printed = << <<"1", "\n", "2">> >>

\* An application has run as the second statement of a session
C1_Witness ==
    /\ Returned(S_sub) /\ ret.state = "returned" /\ nsexps = 2
    /\ Len(heap[1].binds) > Len(RootEnv.binds)

\* Whether name is bound in some frame of the chain that starts at env e
RECURSIVE BoundInChain(_, _, _)
BoundInChain(h, e, name) ==
    IF e = 0 THEN FALSE
    ELSE Has(h, e, name) \/ BoundInChain(h, h[e].outer, name)

\* The value name has in the innermost frame of the chain that binds it
RECURSIVE InnermostBinding(_, _, _)
InnermostBinding(h, e, name) ==
    IF Has(h, e, name) THEN Get(h, e, name)
    ELSE InnermostBinding(h, h[e].outer, name)

\* C2: for every chain of frames and every symbol bound in at least one
\* frame of it, the Atom of the symbol evaluates, in the innermost
\* environment, to the value bound in the innermost frame that holds it
C2_ScopeChainLookup ==
    (lookup.state = "done" /\ lookup.atom.x.t = "str"
        /\ BoundInChain(envs, lookup.env, lookup.atom.x))
    => lookup.value = InnermostBinding(envs, lookup.env, lookup.atom.x)

\* The last define form of the statement that names the Atom name in env e
LastDefineOf(i) ==
    \A j \in (i + 1)..Len(deflog) :
        ~(deflog[j].env = deflog[i].env /\ deflog[j].name = deflog[i].name)

\* C3: after the define forms evaluated in the session's environment, the
\* Atom of a defined symbol evaluates there to the value given by the most
\* recent define form that names the symbol
C3_DefineThenLookup ==
    ret.state = "returned" =>
        \A i \in 1..Len(deflog) :
            (deflog[i].env = 1 /\ deflog[i].name.t = "atom"
                /\ deflog[i].name.x.t = "str" /\ LastDefineOf(i))
            => AtomEval(heap, 1, deflog[i].name) = deflog[i].value

\* C4: every closure call evaluates the body in a fresh environment chained
\* to the captured one, in which each formal parameter evaluates to the
\* argument in its position; the closure of (("x") ("x" "x" +) lambda)
\* called with 5 gives 10
C4_ClosureInvocation ==
    /\ \A k \in 1..Len(calllog) :
          LET c == calllog[k]
              formals == c.udf.arg_names.items
          IN  /\ c.env = c.before + 1
              /\ c.heap[c.env].outer = c.udf.env
              /\ \A i \in 1..Len(formals) :
                    (i <= Len(c.args) /\ formals[i].t = "atom"
                        /\ formals[i].x.t = "str")
                    => AtomEval(c.heap, c.env, formals[i]) = c.args[i]
    /\ Returned(S_lam) => ret.state = "returned" /\ ret.value = IntV(10)

\* C5: cond returns the result of the first pair whose test is truthy and
\* evaluates nothing after it, and returns no value when no test is truthy;
\* ((false 1) (true 2) cond) is 2
C5_Conditional ==
    /\ Returned(S_cond) => ret.state = "returned" /\ ret.value = IntV(2)
    /\ Returned(S_cond01) => ret.state = "returned" /\ ret.value = IntV(2)
    /\ Returned(S_condnone) => ret.state = "returned" /\ ret.value = None
    /\ Returned(S_condskip) =>
          ret.state = "returned" /\ ret.value = IntV(2) /\ printed = << <<>> >>

\* Whether the parentheses of a token sequence do not balance: a close
\* with no open before it, or an open left unclosed at the end
RECURSIVE Unbalanced(_, _)
Unbalanced(tokens, depth) ==
    IF tokens = <<>> THEN depth > 0
    ELSE IF Head(tokens) = <<LP>> THEN Unbalanced(Tail(tokens), depth + 1)
    ELSE IF Head(tokens) = <<RP>>
         THEN depth = 0 \/ Unbalanced(Tail(tokens), depth - 1)
    ELSE Unbalanced(Tail(tokens), depth)

\* C6: a source whose tokens are not empty and whose parentheses do not
\* balance fails to parse with a Syntax error, and with nothing else
C6_UnbalancedIsSyntaxError ==
    (prog.state # "none" /\ tokenize(src) # <<>>
        /\ Unbalanced(tokenize(src), 0))
    => prog.state = "raised" /\ prog.err = SyntaxError

\* C7 as stated: the display text of every parsed tree tokenizes and parses
\* to a tree equal to it
C7_RoundTrip ==
    prog.state = "shown" =>
        \A i \in 1..Len(prog.sexps) :
            /\ redisplay[i].again.err = ""
            /\ redisplay[i].again.tree = prog.sexps[i]

\* The tokens without each quote mark that stands right before an open
\* parenthesis
RECURSIVE DropQuoteMarks(_)
DropQuoteMarks(tokens) ==
    IF tokens = <<>> THEN <<>>
    ELSE IF Len(tokens) >= 2 /\ tokens[1] = <<QUOTEMARK>> /\ tokens[2] = <<LP>>
         THEN DropQuoteMarks(Tail(tokens))
    ELSE <<Head(tokens)>> \o DropQuoteMarks(Tail(tokens))

\* C7, amended: the display text of a parsed Atom tokenizes and parses to
\* an equal Atom; the display text of a parsed List parses to the Atom of
\* the quote mark that str puts before every open parenthesis, and once
\* the quote-mark token before each open parenthesis is removed the tokens
\* parse, with none left over, to a tree equal to the original
C7_RoundTripWithoutQuoteMarks ==
    prog.state = "shown" =>
        \A i \in 1..Len(prog.sexps) :
            LET r == parse(DropQuoteMarks(redisplay[i].tokens))
            IN  /\ r.err = "" /\ r.rest = <<>> /\ r.tree = prog.sexps[i]
                /\ prog.sexps[i].t = "atom" =>
                      /\ redisplay[i].again.err = ""
                      /\ redisplay[i].again.tree = prog.sexps[i]
                /\ prog.sexps[i].t = "list" =>
                      redisplay[i].again.tree = Atom(<<QUOTEMARK>>)

\* A List that holds an Atom and a List has been displayed and parsed again
C7_Witness ==
    /\ prog.state = "shown"
    /\ \E i \in 1..Len(prog.sexps) :
          /\ prog.sexps[i].t = "list"
          /\ \E j, k \in 1..Len(prog.sexps[i].items) :
                /\ prog.sexps[i].items[j].t = "list"
                /\ prog.sexps[i].items[k].t = "atom"

\* C8: a symbol bound in no frame of the chain (the chain may be no
\* environment at all, or hold empty frames) evaluates to its own text, and
\* an Atom that holds a number evaluates to the number
C8_UnboundSymbolIsItself ==
    lookup.state = "done" =>
        /\ (lookup.atom.x.t = "str"
               /\ ~BoundInChain(envs, lookup.env, lookup.atom.x))
           => lookup.value = lookup.atom.x
        /\ lookup.atom.x.t = "int" => lookup.value = lookup.atom.x

\* An unbound symbol has been evaluated in an environment whose own frame
\* and whose outer frame both hold bindings
C8_Witness ==
    /\ lookup.state = "done" /\ lookup.atom = Atom(<<"z">>)
    /\ lookup.env # 0
    /\ envs[lookup.env].binds # <<>>
    /\ envs[lookup.env].outer # 0
    /\ envs[envs[lookup.env].outer].binds # <<>>
    /\ lookup.value = StrV(<<"z">>)

CallInts == [i \in 1..Len(call.args) |-> call.args[i].v]

\* C9: on integers, + returns the sum and * the product of any number of
\* arguments, - returns the first minus the sum of the rest and / the first
\* divided by the product of the rest of one argument or more (a zero
\* divisor apart), and none of these calls fails
C9_ArithmeticIsTotal ==
    call.state = "done" =>
        /\ call.name = <<"+">> =>
              call.err = "" /\ call.v = IntV(SumInts(CallInts))
        /\ call.name = <<"*">> =>
              call.err = "" /\ call.v = IntV(ProductInts(CallInts))
        /\ (call.name = <<"-">> /\ Len(call.args) >= 1) =>
              /\ call.err = ""
              /\ call.v = IntV(Head(CallInts) - SumInts(Tail(CallInts)))
        /\ (call.name = <<"/">> /\ Len(call.args) >= 1
               /\ ProductInts(Tail(CallInts)) # 0) =>
              /\ call.err = ""
              /\ call.v = Float(Head(CallInts), ProductInts(Tail(CallInts)))

\* C10: a define form changes no frame but the one passed to its
\* evaluation: of the frames that exist when the evaluation of the form
\* begins, every other one, the captured and the root environment among
\* them, holds the same bindings when it ends
C10_DefineIsFrameLocal ==
    \A i \in 1..Len(deflog) : deflog[i].changed \subseteq {deflog[i].env}

\* A define form has run in the body of a closure called inside the body
\* of another closure, and has changed the frame of the inner call
C10_Witness ==
    \E i \in 1..Len(deflog), k \in 1..Len(calllog) :
        /\ deflog[i].env = calllog[k].env
        /\ deflog[i].changed = {deflog[i].env}
        /\ calllog[k].heap[calllog[k].env].outer > 1

=============================================================================
